---- MODULE Spec2Model ----
(***************************************************************************)
(* A model of uncore-sim: the Drain pipeline-stage trait and its three     *)
(* implementations, Delay (src/drain.rs), Crossbar (src/crossbar.rs) and   *)
(* Mem with its DelaySimulator back ends NoDelay and DRAMSim (src/mem.rs). *)
(*                                                                         *)
(* Every stage is a record and every trait method an operator from the     *)
(* stage (and the request) to the stage after the call.  A panic is the    *)
(* field fault of the stage that raised it: the state is left as it was at *)
(* the panic and no harness action is enabled afterwards.                  *)
(***************************************************************************)
EXTENDS Integers, Sequences, FiniteSets, TLC

VARIABLES
    mem,    \* a stand-alone Mem<NoDelay, WIDTH> driven by a harness
    mobs,   \* what the harness saw at its last call on mem
    rt,     \* the write/read round trip the harness is following on mem
    dly,    \* a stand-alone Delay<Mem<NoDelay, WIDTH>> driven by a harness
    dobs,   \* what the harness knows of the requests it sent through dly
    xb,     \* a Crossbar over two Delay<Mem<NoDelay, WIDTH>> children
    xobs,   \* what the harness did last on xb and what it has seen so far
    e2e,    \* the place of the end-to-end scenario and what it has seen
    dram,   \* a DRAMSim<WIDTH> and the dramsim3 engine it owns, if built; a
            \* Mem<DRAMSim, WIDTH> when the harness wrapped it into one
    pobs    \* what the harness saw at its last call on dram and counted so far

memVars == <<mem, mobs, rt>>
dlyVars == <<dly, dobs>>
xbVars == <<xb, xobs>>
dramVars == <<dram, pobs>>
vars == <<mem, mobs, rt, dly, dobs, xb, xobs, e2e, dram, pobs>>

----------------------------------------------------------------------------
(* Bounds of the model.                                                    *)

Width == 2      \* WIDTH, the number of bytes of a request
MaxId == 1      \* request ids are 0..MaxId
MaxDelay == 2   \* up_delay and down_delay are 0..MaxDelay
MaxTick == 5    \* the harness stops ticking when a counter reaches MaxTick
MaxPush == 2    \* the requests a harness pushes into a Crossbar
MaxBurst == 4   \* the burst length of the dramsim3 engine is 1..MaxBurst

Ids == 0..MaxId
Lanes == 1..Width
Masks == [Lanes -> BOOLEAN]
\* The write data of the harness: [0; WIDTH] and [1; WIDTH], as the tests use.
Fill(v) == [i \in Lanes |-> v]
Datas == {Fill(0), Fill(1)}
MemAddrs == {0, Width}

NoFault == "none"
None == [some |-> FALSE]
Some(v) == [some |-> TRUE, val |-> v]
EmptyMap == <<>>

----------------------------------------------------------------------------
(* src/mem.rs: MemReq, MemResp, NoDelay, Mem.                              *)

MemReq(id, addr, wbe, wdata) == [id |-> id, addr |-> addr, wbe |-> wbe, wdata |-> wdata]
MemResp(id, rdata) == [id |-> id, rdata |-> rdata]

\* req.wbe.contains(&true)
IsWrite(req) == \E i \in Lanes : req.wbe[i]

NoDelayNew == <<>>
NoDelayTick(q) == q
NoDelayPush(q, addr, is_write) == Append(q, addr)
NoDelayPop_Lifo(q) ==
    IF q = <<>> THEN [sim |-> q, addr |-> None]
    ELSE [sim |-> SubSeq(q, 1, Len(q) - 1), addr |-> Some(q[Len(q)])]

NoDelayPop(q) ==
    IF q = <<>> THEN [sim |-> q, addr |-> None]
    ELSE [sim |-> Tail(q), addr |-> Some(Head(q))]

MemNew == [sim |-> NoDelayNew, content |-> EmptyMap, inflights |-> EmptyMap,
           fault |-> NoFault]

ZeroBuf == [i \in Lanes |-> 0]

ApplyMask_Inverted(buf, req) ==
    [i \in Lanes |-> IF req.wbe[i] THEN buf[i] ELSE req.wdata[i]]

\* for (c, (w, be)) in buf.iter_mut().zip(wdata.zip(wbe)) { if *be { *c = *w } }
ApplyMask(buf, req) ==
    [i \in Lanes |-> IF req.wbe[i] THEN req.wdata[i] ELSE buf[i]]

MemRead_Zero(m, addr) == ZeroBuf

\* self.content.get(&addr).cloned().unwrap_or([0; WIDTH])
MemRead(m, addr) ==
    IF addr \in DOMAIN m.content THEN m.content[addr] ELSE ZeroBuf

MemStore_OnlyThis(m, req) == (req.addr :> ApplyMask(ZeroBuf, req))

MemStore(m, req) ==
    IF req.addr \in DOMAIN m.content
    THEN [m.content EXCEPT ![req.addr] = ApplyMask(@, req)]
    ELSE (req.addr :> ApplyMask(ZeroBuf, req)) @@ m.content

MemPush_NoDupCheck(m, req) ==
    [m EXCEPT !.inflights = (req.addr :> req.id) @@ @,
              !.sim = NoDelayPush(@, req.addr, IsWrite(req)),
              !.content = MemStore(m, req)]

\* Mem::push.  HashMap::insert has replaced the id when the panic is raised.
MemPush(m, req) ==
    IF req.addr \in DOMAIN m.inflights
    THEN [m EXCEPT !.inflights[req.addr] = req.id,
                   !.fault = "duplicated_inflight"]
    ELSE [m EXCEPT !.inflights = (req.addr :> req.id) @@ @,
                   !.sim = NoDelayPush(@, req.addr, IsWrite(req)),
                   !.content = MemStore(m, req)]

MemTick(m) == [m EXCEPT !.sim = NoDelayTick(@)]

MapRemove(f, k) == [x \in DOMAIN f \ {k} |-> f[x]]

MemPop_KeepsInflight(m) ==
    LET p == NoDelayPop(m.sim) IN
    IF ~p.addr.some THEN [st |-> m, resp |-> None]
    ELSE [st |-> [m EXCEPT !.sim = p.sim],
          resp |-> Some(MemResp(m.inflights[p.addr.val], MemRead(m, p.addr.val)))]

\* Mem::pop: the stage after the call and the response it returned.
MemPop(m) ==
    LET p == NoDelayPop(m.sim) IN
    IF ~p.addr.some THEN [st |-> m, resp |-> None]
    ELSE LET addr == p.addr.val IN
         IF addr \notin DOMAIN m.inflights
         THEN [st |-> [m EXCEPT !.sim = p.sim, !.fault = "unexpected_response"],
               resp |-> None]
         ELSE [st |-> [m EXCEPT !.sim = p.sim,
                                !.inflights = MapRemove(@, addr)],
               resp |-> Some(MemResp(m.inflights[addr], MemRead(m, addr)))]

----------------------------------------------------------------------------
(* A harness on a stand-alone Mem<NoDelay, WIDTH>: any request, tick or    *)
(* pop at any time.  mobs records the last call and, in owed, the requests *)
(* the Mem accepted and has not answered, in the order of their pushes; rt *)
(* follows one round trip of a full-mask write and a later pure read at    *)
(* one address.                                                            *)

\* The bytes at address a before a call: zero when a was never touched.
Before(m, a) == IF a \in DOMAIN m.content THEN m.content[a] ELSE [i \in Lanes |-> 0]

\* What a push of req must leave at req.addr when old was there before: the
\* write data in the lanes the mask sets, the old bytes in the others.
MaskedMerge(old, req) ==
    [i \in Lanes |-> IF req.wbe[i] = TRUE THEN req.wdata[i] ELSE old[i]]

\* The push leaves an old byte that differs from the write data in place and
\* overwrites another lane.
KeepsSome(old, req) ==
    /\ \E i \in Lanes : ~req.wbe[i] /\ old[i] # req.wdata[i] /\ old[i] # 0
    /\ \E i \in Lanes : req.wbe[i] /\ old[i] # req.wdata[i]

MemReqs == {MemReq(id, a, wbe, wdata) :
                id \in Ids, a \in MemAddrs, wbe \in Masks, wdata \in Datas}

AllSet(wbe) == \A i \in Lanes : wbe[i]

\* No address: what the harness notes when a call names none.
NoAddr == 0 - 1
MobsInit == [op |-> "new", addr |-> NoAddr, dup |-> FALSE, expect |-> ZeroBuf,
             kept |-> FALSE, resp |-> None, phase |-> "idle", want |-> ZeroBuf,
             owed |-> <<>>, first |-> None, ids |-> {}, stored |-> ZeroBuf]

MobsCall(op) == [MobsInit EXCEPT !.op = op, !.owed = mobs.owed]

\* The sequence q without its entries for the address a.
RECURSIVE Without(_, _)
Without(q, a) ==
    IF q = <<>> THEN q
    ELSE IF Head(q).addr = a THEN Without(Tail(q), a)
    ELSE <<Head(q)>> \o Without(Tail(q), a)
RtIdle == [phase |-> "idle", addr |-> NoAddr, data |-> ZeroBuf]

\* rt after a push of req: a full-mask write may start a round trip, a pure
\* read at the followed address after its write was answered is the read of
\* the round trip, and any other push to the followed address ends it.
RtAfterPush(req) ==
    IF rt.phase # "idle" /\ rt.addr = req.addr
    THEN IF rt.phase = "wr_seen" /\ ~IsWrite(req)
         THEN {[rt EXCEPT !.phase = "rd_pending"]}
         ELSE IF AllSet(req.wbe)
              THEN {[phase |-> "wr_pending", addr |-> req.addr, data |-> req.wdata]}
              ELSE {RtIdle}
    ELSE IF AllSet(req.wbe)
         THEN {rt, [phase |-> "wr_pending", addr |-> req.addr, data |-> req.wdata]}
         ELSE {rt}

HarnessMemPush ==
    /\ UNCHANGED <<dlyVars, xbVars, e2e, dramVars>>
    /\ mem.fault = NoFault
    /\ \E req \in MemReqs :
        /\ mem' = MemPush(mem, req)
        /\ mobs' = [MobsCall("push") EXCEPT !.addr = req.addr,
                        !.owed = IF mem'.fault = NoFault
                                 THEN Append(@, [addr |-> req.addr, id |-> req.id])
                                 ELSE @,
                        !.dup = req.addr \in DOMAIN mem.inflights,
                        !.expect = MaskedMerge(Before(mem, req.addr), req),
                        !.kept = KeepsSome(Before(mem, req.addr), req)]
        /\ rt' \in (IF mem'.fault = NoFault THEN RtAfterPush(req) ELSE {rt})

HarnessMemTick ==
    /\ UNCHANGED <<dlyVars, xbVars, e2e, dramVars>>
    /\ mem.fault = NoFault
    /\ mem' = MemTick(mem)
    /\ mobs' = MobsCall("tick")
    /\ UNCHANGED rt

HarnessMemPop ==
    /\ UNCHANGED <<dlyVars, xbVars, e2e, dramVars>>
    /\ mem.fault = NoFault
    /\ LET r == MemPop(mem)
           a == IF mem.sim = <<>> THEN NoAddr ELSE Head(mem.sim)
           mine == rt.phase \in {"wr_pending", "rd_pending"} /\ rt.addr = a
       IN /\ mem' = r.st
          /\ mobs' = [MobsCall("pop") EXCEPT !.addr = a, !.resp = r.resp,
                          !.first = IF mobs.owed = <<>> THEN None
                                    ELSE Some(Head(mobs.owed)),
                          !.ids = {mobs.owed[i].id : i \in
                                     {j \in DOMAIN mobs.owed : mobs.owed[j].addr = a}},
                          !.stored = Before(mem, a),
                          !.owed = IF r.resp.some THEN Without(@, a) ELSE @,
                          !.phase = IF mine THEN rt.phase ELSE "idle",
                          !.want = IF mine THEN rt.data ELSE ZeroBuf]
          /\ rt' = IF ~mine THEN rt
                   ELSE IF rt.phase = "wr_pending"
                        THEN [rt EXCEPT !.phase = "wr_seen"]
                        ELSE RtIdle

MemIdle ==
    /\ mem = MemNew
    /\ mobs = MobsInit
    /\ rt = RtIdle

MemNext == HarnessMemPush \/ HarnessMemTick \/ HarnessMemPop

----------------------------------------------------------------------------
(* src/drain.rs: Delay<T>, with T = Mem<NoDelay, WIDTH>.                   *)

DelayNew(inner, up_delay, down_delay) ==
    [inner |-> inner, up_delay |-> up_delay, down_delay |-> down_delay,
     tick |-> 0, downlink |-> <<>>, uplink |-> <<>>]

\* The closure of both loops: |(t, _)| *t >= self.tick
TagReached(t, tick) == t >= tick

\* while self.downlink.front().is_some_and(..) { self.inner.push(req) }
\* A panic of inner.push ends the loop with the entry already popped.
RECURSIVE DelayRelease(_, _, _)
DelayRelease(inner, downlink, tick) ==
    IF inner.fault = NoFault /\ downlink # <<>> /\ TagReached(Head(downlink).t, tick)
    THEN DelayRelease(MemPush(inner, Head(downlink).req), Tail(downlink), tick)
    ELSE [inner |-> inner, downlink |-> downlink]

\* while let Some(resp) = self.inner.pop() { self.uplink.push_back(..) }
RECURSIVE DelayCollect(_, _, _)
DelayCollect(inner, uplink, tag) ==
    IF inner.fault # NoFault THEN [inner |-> inner, uplink |-> uplink]
    ELSE LET r == MemPop(inner) IN
         IF r.resp.some
         THEN DelayCollect(r.st, Append(uplink, [t |-> tag, resp |-> r.resp.val]), tag)
         ELSE [inner |-> r.st, uplink |-> uplink]

\* Delay::tick
DelayTick(d) ==
    LET tick == d.tick + 1
        down == DelayRelease(MemTick(d.inner), d.downlink, tick)
        up == DelayCollect(down.inner, d.uplink, tick + d.up_delay)
    IN [d EXCEPT !.inner = up.inner, !.tick = tick,
                 !.downlink = down.downlink, !.uplink = up.uplink]

\* Delay::push
DelayPush(d, req) ==
    [d EXCEPT !.downlink = Append(@, [t |-> d.tick + d.down_delay, req |-> req])]

\* Delay::pop: the stage after the call and the response it returned.
DelayPop(d) ==
    IF d.uplink # <<>> /\ TagReached(Head(d.uplink).t, d.tick)
    THEN [st |-> [d EXCEPT !.uplink = Tail(@)], resp |-> Some(Head(d.uplink).resp)]
    ELSE [st |-> d, resp |-> None]

DelayFault(d) == d.inner.fault

----------------------------------------------------------------------------
(* A harness on a stand-alone Delay over a fresh Mem: the two delays are   *)
(* chosen at construction; then any push, tick or pop at any time.  The    *)
(* harness gives every request an id no request still under way has, and   *)
(* dobs.sent maps the ids under way to the counter value at their push.    *)
(* dobs.prompt says that so far every tick was followed by pops until one  *)
(* returned nothing, before the next tick.                                 *)

DelayReqs == {MemReq(id, a, wbe, wdata) :
                 id \in Ids, a \in MemAddrs, wbe \in {Fill(FALSE), Fill(TRUE)},
                 wdata \in {Fill(1)}}

DobsInit == [op |-> "new", sent |-> EmptyMap, resp |-> None, pushedAt |-> 0,
             drained |-> TRUE, prompt |-> TRUE]

HarnessDelayPush ==
    /\ UNCHANGED <<memVars, xbVars, e2e, dramVars>>
    /\ DelayFault(dly) = NoFault
    /\ \E req \in DelayReqs :
        /\ req.id \notin DOMAIN dobs.sent
        /\ dly' = DelayPush(dly, req)
        /\ dobs' = [dobs EXCEPT !.op = "push", !.resp = None, !.pushedAt = 0,
                        !.sent = (req.id :> dly.tick) @@ @]

HarnessDelayTick ==
    /\ UNCHANGED <<memVars, xbVars, e2e, dramVars>>
    /\ DelayFault(dly) = NoFault
    /\ dly.tick < MaxTick
    /\ dly' = DelayTick(dly)
    /\ dobs' = [dobs EXCEPT !.op = "tick", !.resp = None, !.pushedAt = 0,
                    !.drained = FALSE, !.prompt = @ /\ dobs.drained]

HarnessDelayPop ==
    /\ UNCHANGED <<memVars, xbVars, e2e, dramVars>>
    /\ DelayFault(dly) = NoFault
    /\ LET r == DelayPop(dly) IN
        /\ dly' = r.st
        /\ dobs' = IF r.resp.some
                   THEN [dobs EXCEPT !.op = "pop", !.resp = r.resp,
                             !.pushedAt = dobs.sent[r.resp.val.id],
                             !.sent = MapRemove(@, r.resp.val.id)]
                   ELSE [dobs EXCEPT !.op = "pop", !.resp = None, !.pushedAt = 0,
                             !.drained = TRUE]

DelayIdle ==
    /\ dly = DelayNew(MemNew, 0, 0)
    /\ dobs = DobsInit

DelayNext == HarnessDelayPush \/ HarnessDelayTick \/ HarnessDelayPop

----------------------------------------------------------------------------
(* src/crossbar.rs: Crossbar<u64, MemReq, MemResp>.  children maps a range *)
(* start to the range's exclusive end and its child, as the BTreeMap does. *)

CrossbarNew == [children |-> EmptyMap, fault |-> NoFault]

\* Crossbar::with: BTreeMap::insert replaces an entry that has the same start.
CrossbarWith(x, start, end, inner) ==
    [x EXCEPT !.children = (start :> [end |-> end, child |-> inner]) @@ @]

MaxOf(S) == CHOOSE s \in S : \A u \in S : u <= s
MinOf(S) == CHOOSE s \in S : \A u \in S : s <= u

\* self.children.range_mut(..addr).last(): the starts below addr, and the
\* entry of the greatest of them.
LowerBound(x, addr) ==
    LET below == {s \in DOMAIN x.children : s < addr} IN
    IF below = {} THEN None ELSE Some(MaxOf(below))

OutOfRange_EndIncluded(x, lb, addr) ==
    ~lb.some \/ x.children[lb.val].end < addr

\* lb.is_none() || lb.as_ref().unwrap().1 .0 <= addr
OutOfRange(x, lb, addr) ==
    ~lb.some \/ x.children[lb.val].end <= addr

\* Crossbar::push
CrossbarPush(x, req) ==
    LET addr == req.addr
        lb == LowerBound(x, addr)
    IN IF OutOfRange(x, lb, addr)
       THEN [x EXCEPT !.fault = "out_of_range"]
       ELSE [x EXCEPT !.children[lb.val].child = DelayPush(@, req)]

\* A panic raised inside a child.
ChildFault(x) ==
    IF \E s \in DOMAIN x.children : DelayFault(x.children[s].child) # NoFault
    THEN DelayFault(x.children[
             CHOOSE s \in DOMAIN x.children :
                 DelayFault(x.children[s].child) # NoFault].child)
    ELSE NoFault

CrossbarFault(x) == IF x.fault # NoFault THEN x.fault ELSE ChildFault(x)

\* for (_, (_, child)) in self.children.iter_mut() { child.tick() }, over the
\* starts in todo in ascending order; a panic in a child ends the loop.
RECURSIVE TickChildren(_, _)
TickChildren(x, todo) ==
    IF todo = {} \/ ChildFault(x) # NoFault THEN x
    ELSE LET s == MinOf(todo) IN
         TickChildren([x EXCEPT !.children[s].child = DelayTick(@)], todo \ {s})

\* Crossbar::tick
CrossbarTick(x) == TickChildren(x, DOMAIN x.children)

RECURSIVE PopChildren_Descending(_, _)
PopChildren_Descending(x, todo) ==
    IF todo = {} THEN [st |-> x, resp |-> None]
    ELSE LET s == MaxOf(todo)
             r == DelayPop(x.children[s].child)
         IN IF r.resp.some
            THEN [st |-> [x EXCEPT !.children[s].child = r.st], resp |-> r.resp]
            ELSE PopChildren_Descending(x, todo \ {s})

\* The loop of Crossbar::pop over the starts in todo in ascending order.
RECURSIVE PopChildren(_, _)
PopChildren(x, todo) ==
    IF todo = {} THEN [st |-> x, resp |-> None]
    ELSE LET s == MinOf(todo)
             r == DelayPop(x.children[s].child)
         IN IF r.resp.some
            THEN [st |-> [x EXCEPT !.children[s].child = r.st], resp |-> r.resp]
            ELSE PopChildren(x, todo \ {s})

\* Crossbar::pop: the stage after the call and the response it returned.
CrossbarPop(x) == PopChildren(x, DOMAIN x.children)

----------------------------------------------------------------------------
(* A harness on a Crossbar built as the two tests build theirs: two ranges *)
(* that touch (test_multiple_memory) or leave a gap between them           *)
(* (test_multiple_memory_oob), the first child a Delay with up_delay 3 and *)
(* down_delay 5, the second a Delay with up_delay 4 and down_delay 2.  The *)
(* addresses are scaled down: a range holds two of them.                   *)

Layouts == { <<[start |-> 1, end |-> 3], [start |-> 3, end |-> 5]>>,
             <<[start |-> 1, end |-> 3], [start |-> 4, end |-> 6]>> }
XbarAddrs == 0..6

\* crossbar.rs, lines 99 to 101 and 138 to 140.
BuildCrossbar(layout, mem_a, mem_b) ==
    CrossbarWith(
        CrossbarWith(CrossbarNew, layout[1].start, layout[1].end,
                     DelayNew(mem_a, 3, 5)),
        layout[2].start, layout[2].end, DelayNew(mem_b, 4, 2))

\* The start of the range [start, end) that holds addr, if any.
Owner(x, addr) ==
    LET in == {s \in DOMAIN x.children : s <= addr /\ addr < x.children[s].end}
    IN IF in = {} THEN None ELSE Some(CHOOSE s \in in : TRUE)

XbarReqs == {MemReq(id, a, wbe, wdata) :
                id \in Ids, a \in XbarAddrs, wbe \in {Fill(FALSE), Fill(TRUE)},
                wdata \in {Fill(1)}}

XbarTickCount(x) == x.children[MinOf(DOMAIN x.children)].child.tick

NoReq == MemReq(0, NoAddr, Fill(FALSE), Fill(0))
XobsInit == [op |-> "new", req |-> NoReq, resp |-> None, pushes |-> 0]

HarnessXbarPush ==
    /\ UNCHANGED <<memVars, dlyVars, e2e, dramVars>>
    /\ CrossbarFault(xb) = NoFault
    /\ xobs.pushes < MaxPush
    /\ \E req \in XbarReqs :
        /\ xb' = CrossbarPush(xb, req)
        /\ xobs' = [xobs EXCEPT !.op = "push", !.req = req, !.resp = None,
                        !.pushes = @ + 1]

HarnessXbarTick ==
    /\ UNCHANGED <<memVars, dlyVars, e2e, dramVars>>
    /\ CrossbarFault(xb) = NoFault
    /\ XbarTickCount(xb) < MaxTick
    /\ xb' = CrossbarTick(xb)
    /\ xobs' = [xobs EXCEPT !.op = "tick", !.req = NoReq, !.resp = None]

HarnessXbarPop ==
    /\ UNCHANGED <<memVars, dlyVars, e2e, dramVars>>
    /\ CrossbarFault(xb) = NoFault
    /\ LET r == CrossbarPop(xb) IN
        /\ xb' = r.st
        /\ xobs' = [xobs EXCEPT !.op = "pop", !.req = NoReq, !.resp = r.resp]

XbarIdle ==
    /\ xb = CrossbarNew
    /\ xobs = XobsInit

XbarNext == HarnessXbarPush \/ HarnessXbarTick \/ HarnessXbarPop

----------------------------------------------------------------------------
(* The end-to-end scenario of test_multiple_memory: each Mem is written    *)
(* once on its own, the Crossbar is built over the two touching ranges and *)
(* ticked once, one request is pushed to an address of each range, and the *)
(* harness then ticks and pops until a pop returns nothing, over and over, *)
(* until it has two responses.  The two addresses, the bytes written       *)
(* beforehand and the two requests (a pure read, or a full-mask write) are *)
(* chosen freely.                                                          *)

E2ELayout == <<[start |-> 1, end |-> 3], [start |-> 3, end |-> 5]>>
E2EDatas == {Fill(1), Fill(2)}
\* The ticks of the loop the model follows: the longer of the two paths, 5 + 3,
\* and one more.
E2ETicks == 5 + 3 + 1

\* crossbar.rs, lines 68 to 97: tick, push a full-mask write, pop its response.
WrittenMem(addr, data) ==
    MemPop(MemPush(MemTick(MemNew), MemReq(0, addr, Fill(TRUE), data))).st

E2EPayloads == {[wbe |-> Fill(FALSE), wdata |-> Fill(0)]}
                 \cup {[wbe |-> Fill(TRUE), wdata |-> d] : d \in E2EDatas}

E2EIdle == e2e = [pc |-> "off", addr |-> <<>>, want |-> <<>>, got |-> <<>>, ticks |-> 0]

E2EStart ==
    \E a \in E2ELayout[1].start .. E2ELayout[1].end - 1,
       b \in E2ELayout[2].start .. E2ELayout[2].end - 1,
       da \in E2EDatas, db \in E2EDatas :
        /\ xb = BuildCrossbar(E2ELayout, WrittenMem(a, da), WrittenMem(b, db))
        /\ e2e = [pc |-> "tick0", addr |-> <<a, b>>, want |-> <<da, db>>,
                  got |-> <<>>, ticks |-> 0]

\* crossbar.tick(), line 103
E2EFirstTick ==
    /\ UNCHANGED <<memVars, dlyVars, xobs, dramVars>>
    /\ e2e.pc = "tick0"
    /\ xb' = CrossbarTick(xb)
    /\ e2e' = [e2e EXCEPT !.pc = "push1"]

\* crossbar.push(MemReq { id: 1, .. }) and crossbar.push(MemReq { id: 2, .. })
E2EPush ==
    /\ UNCHANGED <<memVars, dlyVars, xobs, dramVars>>
    /\ e2e.pc \in {"push1", "push2"}
    /\ CrossbarFault(xb) = NoFault
    /\ LET k == IF e2e.pc = "push1" THEN 1 ELSE 2 IN
       \E pl \in E2EPayloads :
        /\ xb' = CrossbarPush(xb, MemReq(k, e2e.addr[k], pl.wbe, pl.wdata))
        /\ e2e' = [e2e EXCEPT !.pc = IF k = 1 THEN "push2" ELSE "loop",
                              !.want[k] = IF IsWrite(pl) THEN pl.wdata ELSE @]

\* crossbar.tick() of the loop, line 120
E2ELoopTick ==
    /\ UNCHANGED <<memVars, dlyVars, xobs, dramVars>>
    /\ e2e.pc = "loop"
    /\ CrossbarFault(xb) = NoFault
    /\ e2e.ticks < E2ETicks
    /\ xb' = CrossbarTick(xb)
    /\ e2e' = [e2e EXCEPT !.pc = "drain", !.ticks = @ + 1]

\* while let Some(resp) = crossbar.pop() { .. }, lines 121 to 127
E2EDrain ==
    /\ UNCHANGED <<memVars, dlyVars, xobs, dramVars>>
    /\ e2e.pc = "drain"
    /\ CrossbarFault(xb) = NoFault
    /\ LET r == CrossbarPop(xb) IN
        /\ xb' = r.st
        /\ e2e' = IF r.resp.some
                  THEN [e2e EXCEPT !.got = Append(@, r.resp.val),
                            !.pc = IF Len(e2e.got) + 1 = 2 THEN "done" ELSE "drain"]
                  ELSE [e2e EXCEPT !.pc = "loop"]

E2ENext == E2EFirstTick \/ E2EPush \/ E2ELoopTick \/ E2EDrain

----------------------------------------------------------------------------
(* src/mem.rs: AddrProgress, Progress<WIDTH> and DRAMSim<WIDTH>.  The      *)
(* dramsim3 engine is outside the repository: sys holds what the model     *)
(* needs of it: its configuration, the transfers it accepted and has not   *)
(* completed (pending), and the transfers it was asked to accept during    *)
(* the last tick (asked).  Which transfers it accepts and which it reports *)
(* as completed at a tick is its own choice.                               *)

AddrProgress(is_write) == [sent |-> 0, recv |-> 0, is_write |-> is_write]

NextSend_Skipping(prog, base, transfer) == base + transfer * (prog.sent + 1)

\* AddrProgress::next_send
NextSend(prog, base, transfer) == base + transfer * prog.sent

\* Progress::default
ProgressDefault ==
    [transfer_width |-> Width, progress |-> EmptyMap, done |-> <<>>,
     fault |-> NoFault]

\* Progress::multiplicity
Multiplicity(p) == Width \div p.transfer_width

\* Progress::add.  The entry is inserted before the second assertion looks
\* at what HashMap::insert returned.
ProgressAdd(p, addr, is_write) ==
    IF addr % Width # 0 THEN [p EXCEPT !.fault = "assert_aligned"]
    ELSE LET was == addr \in DOMAIN p.progress
             q == [p EXCEPT !.progress = (addr :> AddrProgress(is_write)) @@ @]
         IN IF was THEN q ELSE [q EXCEPT !.fault = "assert_insert"]

ProgressStep_FirstBeatDone(p, addr, overflow_checks) ==
    LET aligned == addr - (addr % Width)
    IN IF aligned \notin DOMAIN p.progress
       THEN [p EXCEPT !.fault = "unexpected_response"]
       ELSE IF aligned + p.progress[aligned].recv * p.transfer_width # addr
            THEN [p EXCEPT !.fault = "assert_sequential"]
            ELSE [p EXCEPT !.progress = MapRemove(@, aligned),
                           !.done = Append(@, aligned)]

ProgressStep_Unordered(p, addr, overflow_checks) ==
    LET aligned == addr - (addr % Width)
    IN IF aligned \notin DOMAIN p.progress
       THEN [p EXCEPT !.fault = "unexpected_response"]
       ELSE IF p.progress[aligned].recv + 1 >= Multiplicity(p)
            THEN [p EXCEPT !.progress = MapRemove(@, aligned),
                           !.done = Append(@, aligned)]
            ELSE [p EXCEPT !.progress[aligned].recv = @ + 1]

\* Progress::step.  multiplicity - 1 is a u64 subtraction: at multiplicity 0
\* it panics in a build with overflow checks and wraps to u64::MAX in one
\* without, which no count of received beats equals.
ProgressStep(p, addr, overflow_checks) ==
    LET aligned == addr - (addr % Width)
        multiplicity == Multiplicity(p)
    IN IF aligned \notin DOMAIN p.progress
       THEN [p EXCEPT !.fault = "unexpected_response"]
       ELSE LET prog == p.progress[aligned] IN
            IF aligned + prog.recv * p.transfer_width # addr
            THEN [p EXCEPT !.fault = "assert_sequential"]
            ELSE IF multiplicity = 0 /\ overflow_checks
            THEN [p EXCEPT !.fault = "overflow"]
            ELSE IF multiplicity # 0 /\ prog.recv = multiplicity - 1
            THEN [p EXCEPT !.progress = MapRemove(@, aligned),
                           !.done = Append(@, aligned)]
            ELSE [p EXCEPT !.progress[aligned].recv = @ + 1]

\* Progress::pop
ProgressPop(p) ==
    IF p.done = <<>> THEN [st |-> p, addr |-> None]
    ELSE [st |-> [p EXCEPT !.done = Tail(@)], addr |-> Some(Head(p.done))]

\* DRAMSim::new: the transfer width is read off the engine; nothing is checked.
DRAMSimNew(cfg, overflow_checks) ==
    [sys |-> [cfg |-> cfg, pending |-> <<>>, asked |-> {}],
     prog |-> [ProgressDefault EXCEPT
                 !.transfer_width = (cfg.bus_bits * cfg.burst_length) \div 8],
     overflow_checks |-> overflow_checks]

DRAMSimFault(d) == d.prog.fault

\* DRAMSim::push
DRAMSimPush(d, addr, is_write) ==
    [d EXCEPT !.prog = ProgressAdd(@, addr, is_write)]

\* DRAMSim::pop
DRAMSimPop(d) ==
    LET r == ProgressPop(d.prog) IN [st |-> [d EXCEPT !.prog = r.st], addr |-> r.addr]

\* The callbacks of self.sys.tick(): the engine reports the transfers at the
\* addresses addrs, in that order; a panic ends the reports.
RECURSIVE Report(_, _, _)
Report(p, addrs, overflow_checks) ==
    IF addrs = <<>> \/ p.fault # NoFault THEN p
    ELSE Report(ProgressStep(p, Head(addrs), overflow_checks), Tail(addrs),
                overflow_checks)

\* The transfers at the places idx of the pending list, and the list without.
Reported(pending, idx) == [i \in DOMAIN idx |-> pending[idx[i]]]

Remaining(pending, idx) ==
    LET gone == {idx[i] : i \in DOMAIN idx}
        F[i \in 0..Len(pending)] ==
            IF i = 0 THEN <<>>
            ELSE IF i \in gone THEN F[i - 1] ELSE Append(F[i - 1], pending[i])
    IN F[Len(pending)]

\* The loop of DRAMSim::tick over the entries todo: an entry that has
\* transfers left asks the engine whether it takes the next one (can_add),
\* and the engine does (add) when the entry is in takes.
RECURSIVE Offer(_, _, _)
Offer(d, todo, takes) ==
    IF todo = {} THEN d
    ELSE LET aligned == CHOOSE a \in todo : TRUE
             prog == d.prog.progress[aligned]
             next_addr == NextSend(prog, aligned, d.prog.transfer_width)
             asked == [d EXCEPT !.sys.asked = @ \cup {next_addr}]
         IN IF prog.sent # Multiplicity(d.prog)
            THEN IF aligned \in takes
                 THEN Offer([asked EXCEPT !.sys.pending = Append(@, next_addr),
                                          !.prog.progress[aligned].sent = @ + 1],
                            todo \ {aligned}, takes)
                 ELSE Offer(asked, todo \ {aligned}, takes)
            ELSE Offer(d, todo \ {aligned}, takes)

\* DRAMSim::tick when the engine reports the transfers addrs, keeps the
\* transfers left pending and accepts the next transfer of the entries takes.
DRAMSimTickOn(d, addrs, left, takes) ==
    LET p == Report(d.prog, addrs, d.overflow_checks)
        d1 == [d EXCEPT !.sys.pending = left, !.sys.asked = {}, !.prog = p]
    IN IF p.fault # NoFault THEN d1
       ELSE Offer(d1, DOMAIN d1.prog.progress, takes)

\* DRAMSim::tick, for the engine's choices idx (the places of the pending
\* transfers it completes) and takes.
DRAMSimTick(d, idx, takes) ==
    DRAMSimTickOn(d, Reported(d.sys.pending, idx), Remaining(d.sys.pending, idx), takes)

\* Mem::new over a DRAMSim: the stage holds the simulator next to its content
\* store and its in-flight table.
DramMemNew(sim) ==
    [sim |-> sim, content |-> EmptyMap, inflights |-> EmptyMap, fault |-> NoFault]

DramMemFault(m) == IF m.fault # NoFault THEN m.fault ELSE DRAMSimFault(m.sim)

\* Mem::push with D = DRAMSim.  A panic of self.sim.push leaves the in-flight
\* entry inserted and the content store untouched.
DramMemPush(m, req) ==
    IF req.addr \in DOMAIN m.inflights
    THEN [m EXCEPT !.inflights[req.addr] = req.id,
                   !.fault = "duplicated_inflight"]
    ELSE LET sim == DRAMSimPush(m.sim, req.addr, IsWrite(req))
             m1 == [m EXCEPT !.inflights = (req.addr :> req.id) @@ @, !.sim = sim]
         IN IF DRAMSimFault(sim) # NoFault THEN m1
            ELSE [m1 EXCEPT !.content = MemStore(m, req)]

\* Mem::tick with D = DRAMSim
DramMemTick(m, idx, takes) == [m EXCEPT !.sim = DRAMSimTick(@, idx, takes)]

\* Mem::pop with D = DRAMSim
DramMemPop(m) ==
    LET p == DRAMSimPop(m.sim) IN
    IF ~p.addr.some THEN [st |-> m, resp |-> None]
    ELSE LET addr == p.addr.val IN
         IF addr \notin DOMAIN m.inflights
         THEN [st |-> [m EXCEPT !.sim = p.st, !.fault = "unexpected_response"],
               resp |-> None]
         ELSE [st |-> [m EXCEPT !.sim = p.st,
                                !.inflights = MapRemove(@, addr)],
               resp |-> Some(MemResp(m.inflights[addr], MemRead(m, addr)))]

----------------------------------------------------------------------------
(* A harness on a DRAMSim<WIDTH>: it is built over an engine whose bus is  *)
(* 8 or 16 bits wide and whose burst length is 1..MaxBurst, in a build     *)
(* with or without overflow checks, and the harness keeps it (dram.sim) or *)
(* hands it to Mem::new (dram.mem); then any push, tick or pop on the      *)
(* stage it holds.  pobs records the last call.                            *)

EngineConfigs == [bus_bits : {8, 16}, burst_length : 1..MaxBurst]
DramAddrs == {0, 1, Width}

\* The sequences without repetition of at most two places of the pending list.
Completions(pending) ==
    {<<>>} \cup {<<i>> : i \in DOMAIN pending}
           \cup ({<<i, j>> : i, j \in DOMAIN pending} \ {<<i, i>> : i \in DOMAIN pending})

DramReqs == {MemReq(id, a, wbe, Fill(1)) : id \in Ids, a \in DramAddrs, wbe \in Masks}

DramUnbuilt == [built |-> FALSE]

\* The entries that have transfers left to send: the engine is asked about
\* their next transfer at the next tick, unless the entry is gone by then.
Unsent(d) ==
    {a \in DOMAIN d.prog.progress : d.prog.progress[a].sent # Multiplicity(d.prog)}

\* pobs: the last call (op, addr), what the harness knew of a request it
\* pushed (fresh: no request to its address was in flight; write: a mask bit
\* was set), what the engine did during the last tick (reported, takes), and
\* the harness's own count: open maps every address admitted and not yet
\* complete to the beats the engine reported for it, avail lists the addresses
\* complete and not yet popped.
PobsInit == [op |-> "new", addr |-> NoAddr, fresh |-> FALSE, write |-> FALSE,
             reported |-> <<>>, takes |-> {}, open |-> EmptyMap, avail |-> <<>>]

PobsCall(op) == [PobsInit EXCEPT !.op = op, !.open = pobs.open, !.avail = pobs.avail]

\* The harness counts the beats reported: the access of an address is
\* complete at its beat number beats.
RECURSIVE Counted(_, _, _)
Counted(o, addrs, beats) ==
    IF addrs = <<>> THEN o
    ELSE LET base == Head(addrs) - (Head(addrs) % Width) IN
         IF base \notin DOMAIN o.open THEN Counted(o, Tail(addrs), beats)
         ELSE IF o.open[base] + 1 = beats
         THEN Counted([o EXCEPT !.open = MapRemove(@, base),
                                !.avail = Append(@, base)], Tail(addrs), beats)
         ELSE Counted([o EXCEPT !.open[base] = @ + 1], Tail(addrs), beats)

\* The simulator the harness drives, directly or inside the Mem.
DramSimOf(d) == IF d.wrapped THEN d.mem.sim ELSE d.sim

DramRunning(d) ==
    /\ d.built
    /\ IF d.wrapped THEN DramMemFault(d.mem) = NoFault ELSE DRAMSimFault(d.sim) = NoFault

HarnessDramNew ==
    /\ UNCHANGED <<memVars, dlyVars, xbVars, e2e>>
    /\ ~dram.built
    /\ \E cfg \in EngineConfigs, oc \in BOOLEAN :
        \/ dram' = [built |-> TRUE, wrapped |-> FALSE, sim |-> DRAMSimNew(cfg, oc)]
        \/ dram' = [built |-> TRUE, wrapped |-> TRUE,
                    mem |-> DramMemNew(DRAMSimNew(cfg, oc))]
    /\ pobs' = [PobsInit EXCEPT !.op = "built"]

HarnessDramPush ==
    /\ UNCHANGED <<memVars, dlyVars, xbVars, e2e>>
    /\ DramRunning(dram) /\ ~dram.wrapped
    /\ \E addr \in DramAddrs, is_write \in BOOLEAN :
        /\ dram' = [dram EXCEPT !.sim = DRAMSimPush(@, addr, is_write)]
        /\ pobs' = [PobsCall("push") EXCEPT !.addr = addr]

HarnessDramTick ==
    /\ UNCHANGED <<memVars, dlyVars, xbVars, e2e>>
    /\ DramRunning(dram) /\ ~dram.wrapped
    /\ \E idx \in Completions(dram.sim.sys.pending),
          takes \in SUBSET Unsent(dram.sim) :
        /\ dram' = [dram EXCEPT !.sim = DRAMSimTick(@, idx, takes)]
        /\ pobs' = Counted([PobsCall("tick") EXCEPT
                                !.reported = Reported(dram.sim.sys.pending, idx),
                                !.takes = takes],
                            Reported(dram.sim.sys.pending, idx),
                            Width \div dram.sim.prog.transfer_width)

HarnessDramPop ==
    /\ UNCHANGED <<memVars, dlyVars, xbVars, e2e>>
    /\ DramRunning(dram) /\ ~dram.wrapped
    /\ LET r == DRAMSimPop(dram.sim) IN
        /\ dram' = [dram EXCEPT !.sim = r.st]
        /\ pobs' = [PobsCall("pop") EXCEPT
                        !.addr = IF r.addr.some THEN r.addr.val ELSE NoAddr,
                        !.avail = IF @ = <<>> THEN @ ELSE Tail(@)]

HarnessDramMemPush ==
    /\ UNCHANGED <<memVars, dlyVars, xbVars, e2e>>
    /\ DramRunning(dram) /\ dram.wrapped
    /\ \E req \in DramReqs :
        /\ dram' = [dram EXCEPT !.mem = DramMemPush(@, req)]
        /\ pobs' = [PobsCall("mem_push") EXCEPT !.addr = req.addr,
                        !.fresh = req.addr \notin DOMAIN dram.mem.inflights,
                        !.write = \E i \in Lanes : req.wbe[i] = TRUE]

HarnessDramMemTick ==
    /\ UNCHANGED <<memVars, dlyVars, xbVars, e2e>>
    /\ DramRunning(dram) /\ dram.wrapped
    /\ \E idx \in Completions(dram.mem.sim.sys.pending),
          takes \in SUBSET Unsent(dram.mem.sim) :
        dram' = [dram EXCEPT !.mem = DramMemTick(@, idx, takes)]
    /\ pobs' = PobsCall("mem_tick")

HarnessDramMemPop ==
    /\ UNCHANGED <<memVars, dlyVars, xbVars, e2e>>
    /\ DramRunning(dram) /\ dram.wrapped
    /\ dram' = [dram EXCEPT !.mem = DramMemPop(@).st]
    /\ pobs' = PobsCall("mem_pop")

DramIdle ==
    /\ dram = DramUnbuilt
    /\ pobs = PobsInit

DramNext ==
    \/ HarnessDramNew
    \/ HarnessDramPush \/ HarnessDramTick \/ HarnessDramPop
    \/ HarnessDramMemPush \/ HarnessDramMemTick \/ HarnessDramMemPop

----------------------------------------------------------------------------
(* A harness that goes on after the panic of Progress::add: it calls       *)
(* DRAMSim::push under std::panic::catch_unwind, which leaves the entry    *)
(* that add inserted, and drives the DRAMSim further.  As Mem does, it     *)
(* pushes no address that has an entry, and it keeps no more addresses     *)
(* admitted and unpopped than it has addresses.  The engine completes      *)
(* transfers in any order and may report a transfer of an address that has *)
(* no entry, at a tick at which it accepts none.                           *)

ProgAddrs == {0, Width}
\* The engines of an 8-bit bus: a transfer of 1..MaxBurst bytes.
ProgConfigs == {cfg \in EngineConfigs : cfg.bus_bits = 8}
StrayAddrs == 0..(2 * Width - 1)

Caught(d) == [d EXCEPT !.prog.fault = NoFault]

HarnessProgAdmit ==
    /\ UNCHANGED <<memVars, dlyVars, xbVars, e2e>>
    /\ DramRunning(dram)
    /\ Cardinality(DOMAIN dram.sim.prog.progress) + Len(dram.sim.prog.done)
           < Cardinality(ProgAddrs)
    /\ \E addr \in ProgAddrs \ DOMAIN dram.sim.prog.progress, is_write \in BOOLEAN :
        /\ dram' = [dram EXCEPT !.sim = Caught(DRAMSimPush(@, addr, is_write))]
        /\ pobs' = [PobsCall("admit") EXCEPT !.addr = addr, !.write = is_write,
                        !.open = (addr :> 0) @@ @]

HarnessProgStray ==
    /\ UNCHANGED <<memVars, dlyVars, xbVars, e2e>>
    /\ DramRunning(dram)
    /\ \E addr \in StrayAddrs, takes \in {{}} :
        /\ addr - (addr % Width) \notin DOMAIN dram.sim.prog.progress
        /\ dram' = [dram EXCEPT
                      !.sim = DRAMSimTickOn(@, <<addr>>, @.sys.pending, takes)]
        /\ pobs' = Counted([PobsCall("stray") EXCEPT !.addr = addr,
                                !.reported = <<addr>>, !.takes = takes],
                            <<addr>>, Width \div dram.sim.prog.transfer_width)

ProgNext == HarnessProgAdmit \/ HarnessDramTick \/ HarnessProgStray \/ HarnessDramPop

----------------------------------------------------------------------------
(* The specifications.                                                     *)

MemInit ==
    /\ MemIdle
    /\ DelayIdle
    /\ XbarIdle
    /\ E2EIdle
    /\ DramIdle

SpecMem == MemInit /\ [][MemNext]_vars

DelayInit ==
    /\ \E up \in 0..MaxDelay, down \in 0..MaxDelay : dly = DelayNew(MemNew, up, down)
    /\ dobs = DobsInit
    /\ MemIdle
    /\ XbarIdle
    /\ E2EIdle
    /\ DramIdle

SpecDelay == DelayInit /\ [][DelayNext]_vars

XbarInit ==
    /\ \E layout \in Layouts : xb = BuildCrossbar(layout, MemNew, MemNew)
    /\ xobs = XobsInit
    /\ MemIdle
    /\ DelayIdle
    /\ E2EIdle
    /\ DramIdle

SpecXbar == XbarInit /\ [][XbarNext]_vars

E2EInit ==
    /\ E2EStart
    /\ xobs = XobsInit
    /\ MemIdle
    /\ DelayIdle
    /\ DramIdle

SpecE2E == E2EInit /\ [][E2ENext]_vars

DramInit ==
    /\ DramIdle
    /\ MemIdle
    /\ DelayIdle
    /\ XbarIdle
    /\ E2EIdle

SpecDram == DramInit /\ [][DramNext]_vars

\* A DRAMSim out of DRAMSim::new, over any engine, kept by the harness.
ProgInit ==
    /\ MemIdle
    /\ DelayIdle
    /\ XbarIdle
    /\ E2EIdle
    /\ pobs = PobsInit
    /\ \E cfg \in ProgConfigs, oc \in BOOLEAN :
        dram = [built |-> TRUE, wrapped |-> FALSE, sim |-> DRAMSimNew(cfg, oc)]

SpecProgress == ProgInit /\ [][ProgNext]_vars

----------------------------------------------------------------------------
(* The claims on Mem, checked under SpecMem.                               *)

\* The requests the engine holds for address a: accepted and not yet answered.
Outstanding(m, a) == Cardinality({i \in DOMAIN m.sim : m.sim[i] = a})

\* C5: a push to an address that has an in-flight entry raises the duplicate
\* in-flight fault, so that while no fault was raised no address has more than
\* one request accepted and not yet answered.
C5_DuplicateInflightFaults ==
    /\ (mobs.op = "push" /\ mobs.dup) => mem.fault = "duplicated_inflight"
    /\ mem.fault = NoFault => \A a \in MemAddrs : Outstanding(mem, a) <= 1

C5_Witness ==
    /\ mobs.op = "push" /\ mobs.dup
    /\ mem.fault = "duplicated_inflight"
    /\ Len(mem.sim) = 2

\* C6: the response to a full-mask write of D at address a carries D, and so
\* does the response to a pure read pushed to a after that response was
\* popped, whatever was pushed to, ticked or popped for other addresses.
C6_WriteReadRoundTrip ==
    (mobs.op = "pop" /\ mobs.phase \in {"wr_pending", "rd_pending"}) =>
        mobs.resp.some /\ mobs.resp.val.rdata = mobs.want

C6_Witness ==
    /\ mobs.op = "pop" /\ mobs.phase = "rd_pending"
    /\ mobs.resp.some /\ mobs.resp.val.rdata = Fill(1)
    /\ \E b \in DOMAIN mem.inflights :
           b # mobs.addr /\ b \in DOMAIN mem.content /\ mem.content[b] # Fill(1)

\* C7: right after a push to address a returns, the bytes stored at a are the
\* write data in the lanes whose mask bit is set and the bytes stored before
\* the push (zero if a was never touched) in the other lanes.
C7_PartialMaskWrite ==
    (mobs.op = "push" /\ mem.fault = NoFault) =>
        /\ mobs.addr \in DOMAIN mem.content
        /\ mem.content[mobs.addr] = mobs.expect

C7_Witness ==
    /\ mobs.op = "push" /\ mem.fault = NoFault /\ mobs.kept
    /\ mem.content[mobs.addr] = mobs.expect

----------------------------------------------------------------------------
(* The claims on Delay, checked under SpecDelay.                           *)

\* C2: the response to a request pushed at counter value t is returned by pop
\* no earlier than cycle t + down_delay + up_delay, and at that very cycle when
\* the harness pops to exhaustion after every tick.
C2_DelayFidelity ==
    (dobs.op = "pop" /\ dobs.resp.some) =>
        /\ dly.tick >= dobs.pushedAt + dly.down_delay + dly.up_delay
        /\ dobs.prompt => dly.tick = dobs.pushedAt + dly.down_delay + dly.up_delay

\* C3: no accepted request is dropped.  A queued request whose tag the counter
\* has passed can never leave the downlink queue (the counter only grows and
\* the tags of the queue are ascending), so the claim requires that no such
\* entry exists.
C3_NoRequestLeftBehind ==
    \A i \in DOMAIN dly.downlink : dly.downlink[i].t >= dly.tick

\* C9: whatever number of ticks passed since the last pop, a response at the
\* front of the uplink queue whose tag the counter has reached is returned by
\* the next pop.
C9_PopOnAnySchedule ==
    (dly.uplink # <<>> /\ Head(dly.uplink).t <= dly.tick) => DelayPop(dly).resp.some

----------------------------------------------------------------------------
(* The claims on Crossbar, checked under SpecXbar.                         *)

\* C1: a push of a request whose address lies in a registered range
\* [start, end), the addresses start and end - 1 included, raises no fault,
\* calls push of that range's child with the request and leaves every other
\* child as it was.
C1_RoutesInsideRange ==
    [][(xobs'.op = "push" /\ Owner(xb, xobs'.req.addr).some) =>
          LET s == Owner(xb, xobs'.req.addr).val IN
          /\ CrossbarFault(xb') = NoFault
          /\ xb'.children[s].child = DelayPush(xb.children[s].child, xobs'.req)
          /\ \A u \in DOMAIN xb.children \ {s} : xb'.children[u] = xb.children[u]
       ]_vars

\* C4: a push of a request whose address lies in no registered range raises
\* the out-of-range fault and leaves every child as it was.
C4_OutOfRangeFaults ==
    [][(xobs'.op = "push" /\ ~Owner(xb, xobs'.req.addr).some) =>
          /\ xb'.fault = "out_of_range"
          /\ xb'.children = xb.children
       ]_vars

\* A push to the exclusive end of a range that is followed by a gap faulted.
C4_Witness ==
    /\ xobs.op = "push" /\ xb.fault = "out_of_range"
    /\ xobs.req.addr \notin DOMAIN xb.children
    /\ \E s \in DOMAIN xb.children : xb.children[s].end = xobs.req.addr

----------------------------------------------------------------------------
(* The claim on the end-to-end scenario, checked under SpecE2E.            *)

\* C8: in the scenario no fault is raised, every response the harness pops
\* carries the id of one of the two requests, no id comes twice, the bytes are
\* those stored at the request's address, and both responses have been popped
\* once the loop has ticked as often as the longer path takes, and once more.
C8_EndToEnd ==
    /\ CrossbarFault(xb) = NoFault
    /\ \A i \in DOMAIN e2e.got :
          /\ e2e.got[i].id \in {1, 2}
          /\ e2e.got[i].rdata = e2e.want[e2e.got[i].id]
          /\ \A j \in DOMAIN e2e.got : e2e.got[j].id = e2e.got[i].id => j = i
    /\ (e2e.pc = "loop" /\ e2e.ticks >= E2ETicks) => Len(e2e.got) = 2

----------------------------------------------------------------------------
(* The claim on the construction of DRAMSim, checked under SpecDram.       *)

\* WIDTH is the transfer width taken a whole number of times, once at least.
ExactMultiple(w, transfer) == transfer > 0 /\ w >= transfer /\ w % transfer = 0

\* C10: a DRAMSim whose WIDTH is not an exact positive multiple of the
\* engine's transfer width does not come out of its construction: the
\* construction raises the misconfiguration fault.
C10_MisconfigurationFaults ==
    (dram.built /\ ~ExactMultiple(Width, DramSimOf(dram).prog.transfer_width)) =>
        DRAMSimFault(DramSimOf(dram)) = "misconfiguration"

----------------------------------------------------------------------------
(* The claim on the admission into a Mem over a DRAMSim, under SpecDram.   *)

\* C11: after Mem::push of a request to a WIDTH-aligned address that had no
\* in-flight entry, on a Mem over a DRAMSim, no fault is raised and the
\* progress table holds, for that address, an entry with sent = 0, recv = 0
\* and is_write set exactly when a mask bit of the request was set.
C11_AdmittedWithoutFault ==
    (pobs.op = "mem_push" /\ pobs.addr % Width = 0 /\ pobs.fresh) =>
        /\ DramMemFault(dram.mem) = NoFault
        /\ pobs.addr \in DOMAIN dram.mem.sim.prog.progress
        /\ dram.mem.sim.prog.progress[pobs.addr] =
               [sent |-> 0, recv |-> 0, is_write |-> pobs.write]

----------------------------------------------------------------------------
(* The claims on the two queues of Delay, checked under SpecDelay.         *)

\* The request with this id, still under way, waits in the downlink queue.
InDownlink(id) == \E i \in DOMAIN dly.downlink : dly.downlink[i].req.id = id

\* C12: a request pushed at counter value t is passed to the inner stage
\* during no tick earlier than the one at which the counter reaches
\* t + down_delay: a request under way that has left the downlink queue left
\* it at a counter value of t + down_delay at least.
C12_ForwardedAtTag ==
    \A id \in DOMAIN dobs.sent :
        ~InDownlink(id) => dly.tick >= dobs.sent[id] + dly.down_delay

\* C13: pop returns the front of the uplink queue only when the counter has
\* reached its tag and nothing when the counter is below it or the queue is
\* empty; the responses leave in the order the inner stage produced them, the
\* tags of the queue never descending from its front to its back.
C13_PopAtTag ==
    /\ DelayPop(dly).resp.some =>
          /\ dly.uplink # <<>>
          /\ dly.tick >= Head(dly.uplink).t
          /\ DelayPop(dly).resp.val = Head(dly.uplink).resp
          /\ DelayPop(dly).st.uplink = Tail(dly.uplink)
    /\ \A i, j \in DOMAIN dly.uplink : i < j => dly.uplink[i].t <= dly.uplink[j].t

----------------------------------------------------------------------------
(* The claims on the progress table of a DRAMSim, checked under            *)
(* SpecProgress.                                                           *)

Backpressure(a, before, after, takes) ==
    LET width == after.prog.transfer_width
        beats == Width \div width
        sent == before.prog.progress[a].sent
        next == a + width * sent
        asked == {x \in after.sys.asked : x - (x % Width) = a}
        now == after.prog.progress[a].sent
        waits == \E i \in DOMAIN after.sys.pending : after.sys.pending[i] = next
    IN /\ now <= beats
       /\ IF sent < beats
          THEN /\ asked = {next}
               /\ IF a \in takes THEN now = sent + 1 /\ waits
                                 ELSE now = sent /\ ~waits
          ELSE asked = {} /\ now = sent

\* Transfers of the address a are left to send.
Unfinished(a) ==
    /\ DRAMSimFault(dram.sim) = NoFault
    /\ a \in DOMAIN dram.sim.prog.progress
    /\ dram.sim.prog.progress[a].sent < Width \div dram.sim.prog.transfer_width

\* The step is a tick at which the engine accepts a transfer of the address a.
Accepts(a) == pobs'.op = "tick" /\ a \in pobs'.takes

----------------------------------------------------------------------------
(* The claim on Crossbar::pop, checked under SpecXbar.                     *)

\* The starts of the children whose own pop would return a response.
ReadyChildren(x) ==
    {s \in DOMAIN x.children : DelayPop(x.children[s].child).resp.some}

\* The responses the pops of one child return until one returns nothing.
RECURSIVE ChildDrain(_)
ChildDrain(d) ==
    LET r == DelayPop(d) IN
    IF r.resp.some THEN <<r.resp.val>> \o ChildDrain(r.st) ELSE <<>>

\* The responses the pops of the Crossbar return until one returns nothing.
RECURSIVE XbarDrain(_)
XbarDrain(x) ==
    LET r == CrossbarPop(x) IN
    IF r.resp.some THEN <<r.resp.val>> \o XbarDrain(r.st) ELSE <<>>

\* The responses ready in the children of the starts in todo, child after
\* child in ascending order of the starts.
RECURSIVE ReadyResponses(_, _)
ReadyResponses(x, todo) ==
    IF todo = {} THEN <<>>
    ELSE LET s == CHOOSE t \in todo : \A u \in todo : t <= u IN
         ChildDrain(x.children[s].child) \o ReadyResponses(x, todo \ {s})

\* C17: a pop of the Crossbar returns the response that the pop of the ready
\* child of the lowest start returns and takes it out of that child, every
\* other child staying as it was, and returns nothing, every child staying as
\* it was, only when no child is ready; pops repeated until one returns
\* nothing return the responses ready in the children, each once.
C17_PopScansAscending ==
    /\ [][xobs'.op = "pop" =>
            IF ReadyChildren(xb) = {}
            THEN ~xobs'.resp.some /\ xb' = xb
            ELSE \E s \in ReadyChildren(xb) :
                    /\ \A t \in ReadyChildren(xb) : s <= t
                    /\ xobs'.resp = DelayPop(xb.children[s].child).resp
                    /\ xb'.children[s].child = DelayPop(xb.children[s].child).st
                    /\ \A t \in DOMAIN xb.children \ {s} :
                          xb'.children[t] = xb.children[t]
                    /\ DOMAIN xb'.children = DOMAIN xb.children]_vars
    /\ [](CrossbarFault(xb) = NoFault =>
              XbarDrain(xb) = ReadyResponses(xb, DOMAIN xb.children))

\* Both children were ready, the pop returned the response of the first and
\* the second child is ready still.
C17_Witness ==
    /\ xobs.op = "pop" /\ xobs.resp.some
    /\ DOMAIN xb.children # {}
    /\ LET lo == MinOf(DOMAIN xb.children)
           hi == MaxOf(DOMAIN xb.children)
       IN /\ lo # hi
          /\ xb.children[lo].child.uplink = <<>>
          /\ xb.children[lo].child.inner.content # EmptyMap
          /\ xb.children[hi].child.inner.content # EmptyMap
          /\ DelayPop(xb.children[hi].child).resp.some

----------------------------------------------------------------------------
(* The claims on the in-flight table, the engine queue and the content     *)
(* store of Mem, checked under SpecMem.                                    *)

\* The addresses of the requests accepted and not answered.
OwedAddrs == {mobs.owed[i].addr : i \in DOMAIN mobs.owed}

\* C18: the in-flight table holds address -> id exactly for the requests
\* accepted and not yet answered; a pop returns a response only when the
\* engine reports an address complete, the response carries the id of the one
\* request accepted for that address and the bytes stored there at the pop;
\* and whenever the engine reports an address complete the pop returns a
\* response, after which the request is answered: one response for every
\* accepted request.
C18_InflightLifecycle ==
    /\ mem.fault = NoFault =>
          /\ DOMAIN mem.inflights = OwedAddrs
          /\ \A i \in DOMAIN mobs.owed :
                /\ mem.inflights[mobs.owed[i].addr] = mobs.owed[i].id
                /\ \A j \in DOMAIN mobs.owed :
                      mobs.owed[j].addr = mobs.owed[i].addr => j = i
    /\ mobs.op = "pop" =>
          /\ mobs.resp.some <=> mobs.addr # NoAddr
          /\ mobs.resp.some =>
                /\ mobs.ids = {mobs.resp.val.id}
                /\ mobs.resp.val.rdata = mobs.stored
                /\ mobs.addr \notin OwedAddrs
                /\ mem.fault = NoFault

\* A pop answered the request of one address while a request with another
\* id is in flight at the other.
C18_Witness ==
    /\ mobs.op = "pop" /\ mobs.resp.some
    /\ mobs.resp.val.rdata # ZeroBuf
    /\ \E b \in DOMAIN mem.inflights :
          b # mobs.addr /\ mem.inflights[b] # mobs.resp.val.id

\* Every place of the engine's queue holds the address of the request at the
\* same place of the requests accepted and not answered.
SameOrder(q, owed) ==
    /\ Len(q) = Len(owed)
    /\ \A i \in DOMAIN q : q[i] = owed[i].addr

\* C19: the queue of NoDelay holds every address of the in-flight table once
\* and no other address, the pop never raises 'Unexpected memory response',
\* the responses come in the order the requests were pushed, and a pop
\* returns the response of the oldest request not answered whether or not a
\* tick came after its push.
C19_NoDelayFifo ==
    /\ {mem.sim[i] : i \in DOMAIN mem.sim} = DOMAIN mem.inflights
    /\ \A i, j \in DOMAIN mem.sim : mem.sim[i] = mem.sim[j] => i = j
    /\ mem.fault # "unexpected_response"
    /\ mem.fault = NoFault => SameOrder(mem.sim, mobs.owed)
    /\ mobs.op = "pop" =>
          IF mobs.first.some
          THEN /\ mobs.resp.some
               /\ mobs.resp.val.id = mobs.first.val.id
               /\ mobs.addr = mobs.first.val.addr
          ELSE ~mobs.resp.some

\* A pop answered the older of two requests that were in flight.
C19_Witness ==
    /\ mobs.op = "pop" /\ mobs.resp.some
    /\ Len(mobs.owed) = 1
    /\ mobs.owed[1].id # mobs.resp.val.id
    /\ mem.sim = <<mobs.owed[1].addr>>

\* C20: a push to the address a leaves the bytes stored and the in-flight
\* entry of every other address as they were; a tick and a pop leave the
\* content store as it was; an address that has a content entry keeps one.
C20_MemFrame ==
    [][/\ mobs'.op = "push" =>
            \A b \in MemAddrs \ {mobs'.addr} :
                /\ b \in DOMAIN mem'.content <=> b \in DOMAIN mem.content
                /\ b \in DOMAIN mem.content => mem'.content[b] = mem.content[b]
                /\ b \in DOMAIN mem'.inflights <=> b \in DOMAIN mem.inflights
                /\ b \in DOMAIN mem.inflights => mem'.inflights[b] = mem.inflights[b]
       /\ mobs'.op \in {"tick", "pop"} => mem'.content = mem.content
       /\ DOMAIN mem.content \subseteq DOMAIN mem'.content]_vars

\* A push wrote one address while the other holds bytes and is in flight.
C20_Witness ==
    /\ mobs.op = "push" /\ mem.fault = NoFault
    /\ mem.content[mobs.addr] # ZeroBuf
    /\ \E b \in DOMAIN mem.content \ {mobs.addr} :
          /\ mem.content[b] # ZeroBuf
          /\ mem.content[b] # mem.content[mobs.addr]
          /\ b \in DOMAIN mem.inflights

====
